---- MODULE Spec2Model ----
(***************************************************************************)
(* Model of src/main.py: the column resolver (map_columns) and the body    *)
(* of upload_csv (baseline loop, deviation loop, summary counters).        *)
(*                                                                         *)
(* Text is a sequence of one-character strings, so that str.strip() and    *)
(* str.lower() are computed character by character.  Numbers are fixed     *)
(* point: an integer n stands for n / Scale.                               *)
(***************************************************************************)
EXTENDS Integers, Sequences, FiniteSets, TLC

\* ------------------------------------------------------------------ bounds
MaxRows == 2
MaxCols == 3

\* ------------------------------------------------------------ fixed point
\* Quanta per 1.0: 1e-6 is EpsQuanta quanta, and a quarter of the smallest
\* difference between two cells (QuantaPerTick) is still a whole number.
Scale == 4 * 10^6
EpsQuanta == Scale \div 1000000
QuantaPerTick == EpsQuanta

Abs(x) == IF x < 0 THEN -x ELSE x

\* ------------------------------------------------------------------- text
Upper == <<"A","B","C","D","E","F","G","H","I","J","K","L","M",
           "N","O","P","Q","R","S","T","U","V","W","X","Y","Z">>
Lower == <<"a","b","c","d","e","f","g","h","i","j","k","l","m",
           "n","o","p","q","r","s","t","u","v","w","x","y","z">>
Whitespace == {" ", "\t"}

\* str.lower() on one character
lower_char(c) ==
    IF \E i \in 1..Len(Upper) : Upper[i] = c
    THEN Lower[CHOOSE i \in 1..Len(Upper) : Upper[i] = c]
    ELSE c

\* str.lower()
lower(s) == [i \in 1..Len(s) |-> lower_char(s[i])]

\* str.strip(): drop leading and trailing whitespace
strip(s) ==
    LET keep == {i \in 1..Len(s) : s[i] \notin Whitespace}
    IN  IF keep = {} THEN <<>>
        ELSE LET lo == CHOOSE i \in keep : \A j \in keep : i <= j
                 hi == CHOOSE i \in keep : \A j \in keep : j <= i
             IN  SubSeq(s, lo, hi)

\* ------------------------------------------------------------- COLUMN_MAP
COLUMN_MAP == <<
    [standard |-> "heart_rate",
     variations |-> << <<"h","r">>,
                       <<"h","e","a","r","t"," ","r","a","t","e">>,
                       <<"h","e","a","r","t","r","a","t","e">>,
                       <<"h","e","a","r","t","_","r","a","t","e">> >>],
    [standard |-> "spo2",
     variations |-> << <<"s","p","o","2">>,
                       <<"s","p","0","2">>,
                       <<"o","x","y","g","e","n">>,
                       <<"b","l","o","o","d"," ","o","x","y","g","e","n">>,
                       <<"o","2">> >>],
    [standard |-> "systolic_bp",
     variations |-> << <<"s","y","s">>,
                       <<"s","y","s","t","o","l","i","c">>,
                       <<"s","y","s","t","o","l","i","c"," ","b","p">>,
                       <<"s","b","p">> >>],
    [standard |-> "diastolic_bp",
     variations |-> << <<"d","i","a">>,
                       <<"d","i","a","s","t","o","l","i","c">>,
                       <<"d","i","a","s","t","o","l","i","c"," ","b","p">>,
                       <<"d","b","p">> >>] >>

\* x in list
In(x, list) == \E i \in 1..Len(list) : list[i] = x

\* ------------------------------------------------------------------ dicts
\* A Python dict is a sequence of (key, value) items in insertion order.
DictHas(d, key) == \E i \in 1..Len(d) : d[i].k = key
DictGet(d, key) == d[CHOOSE i \in 1..Len(d) : d[i].k = key].v
DictKeys(d) == {d[i].k : i \in 1..Len(d)}
\* d[key] = value: an existing key keeps its position, a new key goes last
DictSet(d, key, value) ==
    IF DictHas(d, key)
    THEN [i \in 1..Len(d) |-> IF d[i].k = key THEN [k |-> key, v |-> value] ELSE d[i]]
    ELSE Append(d, [k |-> key, v |-> value])

\* --------------------------------------------------------- map_columns
\* The inner loop "for col in df.columns" for one (standard, variations),
\* from column position j on.
RECURSIVE scan_columns(_, _, _, _)
scan_columns(mapped, item, columns, j) ==
    IF j > Len(columns) THEN mapped
    ELSE scan_columns(
            IF In(lower(strip(columns[j])), item.variations)
            THEN DictSet(mapped, item.standard, columns[j])
            ELSE mapped,
            item, columns, j + 1)

\* The outer loop "for standard, variations in COLUMN_MAP.items()", from
\* item position i on.
RECURSIVE scan_items(_, _, _)
scan_items(mapped, columns, i) ==
    IF i > Len(COLUMN_MAP) THEN mapped
    ELSE scan_items(scan_columns(mapped, COLUMN_MAP[i], columns, 1), columns, i + 1)

\* variant: the loop over the headers is the outer one, so that the items of
\* the mapping come in header order
RECURSIVE scan_headers(_, _, _)
scan_headers(mapped, columns, j) ==
    IF j > Len(columns) THEN mapped
    ELSE LET hits == {i \in 1..Len(COLUMN_MAP) :
                        In(lower(strip(columns[j])), COLUMN_MAP[i].variations)}
         IN  scan_headers(
                IF hits = {} THEN mapped
                ELSE DictSet(mapped, COLUMN_MAP[CHOOSE i \in hits : TRUE].standard,
                             columns[j]),
                columns, j + 1)
map_columns_by_header(columns) == scan_headers(<<>>, columns, 1)

map_columns(columns) == scan_items(<<>>, columns, 1)

\* ------------------------------------------------------------------ cells
\* A parsed cell: a number, NaN (an empty field) or text that is no number.
NaN == [k |-> "nan", v |-> 0]
Text == [k |-> "text", v |-> 0]
Num(n) == [k |-> "num", v |-> n]

\* variant: errors="ignore", the cell is left as it is
to_numeric_ignore(c) == c

\* pd.to_numeric(x, errors="coerce") on one cell
to_numeric(c) == IF c.k = "num" THEN c ELSE NaN

\* pd.isna(value)
isna(c) == c.k = "nan"

\* position of the column named col (read_csv makes the names distinct)
ColIndex(columns, col) == CHOOSE j \in 1..Len(columns) : columns[j] = col

\* df[col] as a sequence of cells
Column(d, col) ==
    LET j == ColIndex(d.columns, col)
    IN  [i \in 1..Len(d.rows) |-> d.rows[i][j]]

\* df[col] = pd.to_numeric(df[col], errors="coerce")
coerce_column(d, col) ==
    LET j == ColIndex(d.columns, col)
    IN  [d EXCEPT !.rows =
            [i \in 1..Len(d.rows) |->
                [d.rows[i] EXCEPT ![j] = to_numeric(d.rows[i][j])]]]

\* variant: nothing is dropped
dropna_keep(cells) == [i \in 1..Len(cells) |-> cells[i].v]

\* Series.dropna(), as the sequence of the remaining values
dropna(cells) ==
    LET kept == SelectSeq(cells, LAMBDA c : ~isna(c))
    IN  [i \in 1..Len(kept) |-> kept[i].v]

\* Series.empty
empty(values) == Len(values) = 0

\* ------------------------------------------------------------- quantiles
RECURSIVE insert_sorted(_, _)
insert_sorted(s, x) ==
    IF s = <<>> THEN <<x>>
    ELSE IF x <= Head(s) THEN <<x>> \o s
    ELSE <<Head(s)>> \o insert_sorted(Tail(s), x)

RECURSIVE sorted(_)
sorted(s) == IF s = <<>> THEN <<>> ELSE insert_sorted(sorted(Tail(s)), Head(s))

\* Series.quantile(q4 / 4) with linear interpolation: the virtual position
\* is (n - 1) * q4 / 4, counted from 0, in a sorted copy of the values.
quantile(values, q4) ==
    LET s == sorted(values)
        h4 == (Len(s) - 1) * q4
        i == h4 \div 4
        f == h4 % 4
    IN  IF f = 0 THEN s[i + 1]
        ELSE s[i + 1] + ((s[i + 2] - s[i + 1]) * f) \div 4

\* Series.median()
median(values) == quantile(values, 2)

\* lines 50-53: iqr = q3 - q1; if iqr == 0: iqr = 1e-6
iqr_of(values) ==
    LET iqr == quantile(values, 3) - quantile(values, 1)
    IN  IF iqr = 0 THEN EpsQuanta ELSE iqr

\* ------------------------------------------------------ deviation rules
HrNum == 3
HrDen == 20
Spo2Drop == 2
SysDelta == 10
DiaDelta == 5

\* x / y on float64: a fraction, with y = 0 giving inf (x > 0) or nan (x = 0)
truediv(x, y) == [n |-> x, d |-> y]

\* variant: the division of Python floats, which raises ZeroDivisionError
truediv_raises_python(x, y) == y = 0

\* does x / y raise?  numpy.float64 division by zero warns and returns.
truediv_raises(x, y) == FALSE

\* q > num / den for a float64 q with q.n >= 0 (inf > t, and nan > t is False)
frac_gt(q, num, den) ==
    IF q.d = 0 THEN q.n > 0
    ELSE IF q.d > 0 THEN q.n * den > num * q.d
    ELSE q.n * den < num * q.d

\* line 73
heart_rate_rule(value, baseline) ==
    frac_gt(truediv(Abs(value - baseline), baseline), HrNum, HrDen)
\* variant: two-sided
spo2_rule_abs(value, baseline) == Abs(baseline - value) > Spo2Drop * Scale
\* line 77
spo2_rule(value, baseline) == baseline - value > Spo2Drop * Scale
\* line 81
systolic_bp_rule(value, baseline) == Abs(value - baseline) > SysDelta * Scale
\* line 85
diastolic_bp_rule(value, baseline) == Abs(value - baseline) > DiaDelta * Scale

\* the if / elif chain of lines 72-86
deviates(signal, value, baseline) ==
    CASE signal = "heart_rate" -> heart_rate_rule(value, baseline)
      [] signal = "spo2" -> spo2_rule(value, baseline)
      [] signal = "systolic_bp" -> systolic_bp_rule(value, baseline)
      [] signal = "diastolic_bp" -> diastolic_bp_rule(value, baseline)
      [] OTHER -> FALSE

\* lines 62-86 for one row: the triggered list, from mapping item m on
RECURSIVE scan_signals(_, _, _, _, _, _)
scan_signals(triggered, row, columns, mapping, base, m) ==
    IF m > Len(mapping) THEN triggered
    ELSE LET signal == mapping[m].k
             value == row[ColIndex(columns, mapping[m].v)]
         IN  scan_signals(
                IF /\ DictHas(base, signal)
                   /\ ~isna(value)
                   /\ deviates(signal, value.v, DictGet(base, signal))
                THEN Append(triggered, signal)
                ELSE triggered,
                row, columns, mapping, base, m + 1)

\* does evaluating the row raise?  Arithmetic on text raises TypeError.
row_raises(row, columns, mapping, base) ==
    \E m \in 1..Len(mapping) :
        LET signal == mapping[m].k
            value == row[ColIndex(columns, mapping[m].v)]
        IN  /\ DictHas(base, signal)
            /\ ~isna(value)
            /\ \/ value.k # "num"
               \/ /\ signal = "heart_rate"
                  /\ truediv_raises(Abs(value.v - DictGet(base, signal)),
                                    DictGet(base, signal))

\* ", ".join(triggered)
RECURSIVE join(_)
join(list) ==
    IF list = <<>> THEN ""
    ELSE IF Len(list) = 1 THEN list[1]
    ELSE list[1] \o ", " \o join(Tail(list))

\* deviation_rows.append(...)
append_event(events, e) == Append(events, e)

\* ------------------------------------------------------ summary counters
\* variant: the number of columns
len_columns(d) == Len(d.columns)
\* line 140
len_df(d) == Len(d.rows)
\* line 141
count_events(events) == Len(events)
\* variant: the severity of the last event
last_of(events, default) ==
    IF events = <<>> THEN default ELSE events[Len(events)].severity

\* line 142: max([...], default=0)
RECURSIVE max_of(_, _)
max_of(events, default) ==
    IF events = <<>> THEN default
    ELSE LET rest == max_of(Tail(events), Head(events).severity)
         IN  IF Head(events).severity > rest THEN Head(events).severity ELSE rest
\* line 143
count_multi(events) == Len(SelectSeq(events, LAMBDA e : e.severity >= 2))

\* ------------------------------------------------------------------ input
H_hr == <<"h","r">>
H_HR_padded == <<" ","H","R"," ">>
H_Heart_Rate == <<"H","e","a","r","t"," ","R","a","t","e">>
H_SpO2 == <<"S","p","O","2">>
H_sys == <<"s","y","s">>
H_DBP == <<"D","B","P","\t">>
H_name == <<"n","a","m","e">>
H_h_r == <<"h"," ","r">>

Headers == {H_hr, H_HR_padded, H_Heart_Rate, H_SpO2, H_sys, H_DBP, H_name, H_h_r}

\* header rows of the tables that carry data
HeaderRows == {
    <<H_name>>, <<H_hr>>, <<H_DBP>>,
    <<H_hr, H_SpO2>>, <<H_SpO2, H_hr>>,
    <<H_sys, H_DBP>>, <<H_DBP, H_sys>>,
    <<H_hr, H_HR_padded>>, <<H_Heart_Rate, H_hr>>,
    <<H_name, H_SpO2>>, <<H_sys, H_h_r>>, <<H_SpO2, H_sys>> }

\* header rows of the wider tables, whose cells are all numeric
WideHeaderRows == {
    <<H_DBP, H_sys, H_SpO2, H_hr>>,
    <<H_Heart_Rate, H_SpO2, H_HR_padded>> }

\* header rows of the tables whose lines carry a leading label, and the labels
LabelledHeaderRows == { <<H_hr>>, <<H_SpO2>> }
Labels == {0, 1, 7}

Lo == -11 * Scale
LoEps == Lo + QuantaPerTick
Hi == 11 * Scale
Cells == {NaN, Text, Num(Lo), Num(LoEps), Num(Hi)}
NumericCells == {Num(Lo), Num(Hi)}

Distinct(s) == \A i, j \in 1..Len(s) : i # j => s[i] # s[j]

\* ------------------------------------------------------------------ state
VARIABLES contents, df, column_mapping, baselines, volatility,
          deviation_rows, triggered, sig_i, row_i, summary, pc

vars == <<contents, df, column_mapping, baselines, volatility,
          deviation_rows, triggered, sig_i, row_i, summary, pc>>

NoSummary ==
    [total_rows |-> -1, deviation_count |-> -1, max_severity |-> -1, multi_signal |-> -1]

InitWith(table) ==
    /\ contents = table
    /\ df = table
    /\ column_mapping = <<>>
    /\ baselines = <<>>
    /\ volatility = <<>>
    /\ deviation_rows = <<>>
    /\ triggered = <<>>
    /\ sig_i = 1
    /\ row_i = 0
    /\ summary = NoSummary
    /\ pc = "mapping"

\* the index read_csv gives a table of n rows whose lines have as many
\* fields as the header
RangeIndex(n) == [i \in 1..n |-> i - 1]

\* an uploaded table, as pd.read_csv(...) of line 30 parses it:
\*  - a header row of HeaderRows over up to MaxRows rows of any cells, or
\*  - one of WideHeaderRows over up to MaxRows rows of numbers, or
\*  - lines with one field more than the header (a trailing delimiter, a
\*    leading id): with the default index_col, read_csv then takes the first
\*    field of every line as the row's label in the index.
Init ==
    \E n \in 0..MaxRows :
        \/ \E h \in HeaderRows :
              \E r \in [1..n -> [1..Len(h) -> Cells]] :
                 InitWith([columns |-> h, index |-> RangeIndex(n), rows |-> r])
        \/ \E h \in WideHeaderRows :
              \E r \in [1..n -> [1..Len(h) -> NumericCells]] :
                 InitWith([columns |-> h, index |-> RangeIndex(n), rows |-> r])
        \/ \E h \in LabelledHeaderRows :
              \E r \in [1..n -> [1..Len(h) -> Cells]] :
                 \E labels \in [1..n -> Labels] :
                    InitWith([columns |-> h, index |-> labels, rows |-> r])

\* a table for the column resolver alone: up to MaxCols distinct headers and
\* no data row
InitResolver ==
    \E n \in 1..MaxCols : \E h \in [1..n -> Headers] :
        /\ Distinct(h)
        /\ InitWith([columns |-> h, index |-> <<>>, rows |-> <<>>])

\* where the run stands: before line 32, inside the loop of line 39, inside
\* the loop of line 59, past both loops
AtMapping == pc = "mapping"
AtBaseline == pc = "processing" /\ sig_i <= Len(column_mapping)
AtDetect == pc = "processing" /\ sig_i > Len(column_mapping) /\ row_i < Len(df.rows)
AtSummary == pc = "processing" /\ sig_i > Len(column_mapping) /\ row_i = Len(df.rows)

\* line 32
MapColumns ==
    /\ AtMapping
    /\ column_mapping' = map_columns(df.columns)
    /\ pc' = "processing"
    /\ UNCHANGED <<contents, df, baselines, volatility, deviation_rows,
                   triggered, sig_i, row_i, summary>>

\* lines 39-56: one iteration of the baseline loop
BaselineStep ==
    /\ AtBaseline
    /\ LET signal == column_mapping[sig_i].k
           col == column_mapping[sig_i].v
           coerced == coerce_column(df, col)
           clean_series == dropna(Column(coerced, col))
       IN  /\ df' = coerced
           /\ IF empty(clean_series)
              THEN UNCHANGED <<baselines, volatility>>
              ELSE /\ baselines' = DictSet(baselines, signal, median(clean_series))
                   /\ volatility' = DictSet(volatility, signal, iqr_of(clean_series))
    /\ sig_i' = sig_i + 1
    /\ UNCHANGED <<contents, column_mapping, deviation_rows, triggered, row_i,
                   summary, pc>>

\* lines 59-93: one iteration of the deviation loop, for the row after the
\* row_i rows already visited; idx is its label in the index of df
DetectRow ==
    /\ AtDetect
    /\ LET row == df.rows[row_i + 1]
           idx == df.index[row_i + 1]
       IN  IF row_raises(row, df.columns, column_mapping, baselines)
           THEN /\ pc' = "raised"
                /\ UNCHANGED <<triggered, deviation_rows, row_i>>
           ELSE LET list == scan_signals(<<>>, row, df.columns, column_mapping,
                                         baselines, 1)
                IN  /\ triggered' = list
                    /\ deviation_rows' =
                         IF list # <<>>
                         THEN append_event(deviation_rows,
                                [row |-> idx, signals |-> join(list),
                                 severity |-> Len(list)])
                         ELSE deviation_rows
                    /\ row_i' = row_i + 1
                    /\ pc' = pc
    /\ UNCHANGED <<contents, df, column_mapping, baselines, volatility, sig_i,
                   summary>>

\* lines 140-143, after the last row
Summarize ==
    /\ AtSummary
    /\ summary' = [total_rows |-> len_df(df),
                   deviation_count |-> count_events(deviation_rows),
                   max_severity |-> max_of(deviation_rows, 0),
                   multi_signal |-> count_multi(deviation_rows)]
    /\ pc' = "done"
    /\ UNCHANGED <<contents, df, column_mapping, baselines, volatility,
                   deviation_rows, triggered, sig_i, row_i>>

Next == MapColumns \/ BaselineStep \/ DetectRow \/ Summarize

Spec == Init /\ [][Next]_vars

NextResolver == MapColumns

SpecResolver == InitResolver /\ [][NextResolver]_vars

\* ----------------------------------------------------------------- claims
Signals == {"heart_rate", "spo2", "systolic_bp", "diastolic_bp"}
SignalOrder == <<"heart_rate", "spo2", "systolic_bp", "diastolic_bp">>
Pos(signal) == CHOOSE p \in 1..Len(SignalOrder) : SignalOrder[p] = signal

\* the baseline loop is over: rows 1..row_i of the table have been classified
Detecting == pc \in {"processing", "done"} /\ sig_i > Len(column_mapping)

Mapped(signal) == DictHas(column_mapping, signal)
\* the cell of a mapped signal in row i (1-based) of the table as uploaded
RawCell(signal, i) ==
    contents.rows[i][ColIndex(contents.columns, DictGet(column_mapping, signal))]
IsNumeric(c) == c.k = "num"
\* the numeric values of a mapped signal's column, as uploaded
NumericValues(signal) ==
    LET cells == SelectSeq(Column(contents, DictGet(column_mapping, signal)), IsNumeric)
    IN  [i \in 1..Len(cells) |-> cells[i].v]
HasNumeric(signal) == \E i \in 1..Len(contents.rows) : IsNumeric(RawCell(signal, i))

\* the median as the middle value, or the mean of the two middle values
MiddleValue(values) ==
    LET s == sorted(values)
        n == Len(s)
    IN  (s[(n + 1) \div 2] + s[n \div 2 + 1]) \div 2
WholeTableMedian(signal) == MiddleValue(NumericValues(signal))

\* the trigger rules as the claims write them, on float64: a zero baseline
\* makes abs(v-b)/b infinite (v # b) or nan, a negative one makes it <= 0
Rule(signal, v, b) ==
    CASE signal = "heart_rate" ->
            IF b > 0 THEN 20 * Abs(v - b) > 3 * b ELSE b = 0 /\ v # b
      [] signal = "spo2" -> b - v > 2 * Scale
      [] signal = "systolic_bp" -> Abs(v - b) > 10 * Scale
      [] signal = "diastolic_bp" -> Abs(v - b) > 5 * Scale

\* the signals whose rule row i (1-based) satisfies
Satisfied(i) ==
    {s \in Signals :
        /\ Mapped(s)
        /\ DictHas(baselines, s)
        /\ IsNumeric(RawCell(s, i))
        /\ Rule(s, RawCell(s, i).v, WholeTableMedian(s))}

\* the visited rows (1-based) that satisfy a rule, in table order
RowsWithRule == SelectSeq([i \in 1..row_i |-> i], LAMBDA i : Satisfied(i) # {})

\* C1: the rows with an event are the rows in which at least one mapped and
\* baselined signal has a numeric value that satisfies its trigger rule
\* against the whole-table median: the events are, in order, those of the
\* visited rows that satisfy a rule, each carrying its row's index and, as
\* severity, the number of signals whose rule the row satisfies.
EventIffRuleSatisfied ==
    Detecting =>
        /\ Len(deviation_rows) = Len(RowsWithRule)
        /\ \A e \in 1..Len(RowsWithRule) :
              /\ deviation_rows[e].row = df.index[RowsWithRule[e]]
              /\ deviation_rows[e].severity = Cardinality(Satisfied(RowsWithRule[e]))

\* a finished run with a row that satisfies two rules and a row that
\* satisfies one
EventIffRuleSatisfiedWitness ==
    /\ pc = "done"
    /\ \E e \in 1..Len(deviation_rows) : deviation_rows[e].severity = 2
    /\ \E i \in 1..Len(contents.rows) : Cardinality(Satisfied(i)) = 1

\* the headers of the table that alias to the signal of a COLUMN_MAP item
Matches(item) ==
    {j \in 1..Len(df.columns) : In(lower(strip(df.columns[j])), item.variations)}

\* C2: map_columns maps every signal to the first header, in table order,
\* whose trimmed lower-cased text is one of its aliases, and leaves a signal
\* without such a header out of the mapping.
FirstMatchWins ==
    pc # "mapping" =>
        \A m \in 1..Len(COLUMN_MAP) :
            LET item == COLUMN_MAP[m]
            IN  IF Matches(item) = {}
                THEN ~DictHas(column_mapping, item.standard)
                ELSE /\ DictHas(column_mapping, item.standard)
                     /\ DictGet(column_mapping, item.standard) =
                            df.columns[CHOOSE j \in Matches(item) :
                                            \A j2 \in Matches(item) : j <= j2]

Max(a, b) == IF a >= b THEN a ELSE b

\* C3: every stored volatility is at least 1e-6 and equals
\* max(Q3 - Q1, 1e-6) of the signal's valid values.
VolatilityFloor ==
    \A m \in 1..Len(volatility) :
        LET values == NumericValues(volatility[m].k)
        IN  /\ volatility[m].v >= EpsQuanta
            /\ volatility[m].v =
                 Max(quantile(values, 3) - quantile(values, 1), EpsQuanta)

\* C4: a mapped signal whose cell in the row is missing or not numeric is
\* not in the row's triggered list and nothing is raised, whatever the
\* signal's baseline; the row's other signals are evaluated as usual.
MissingCellSkipped ==
    /\ pc # "raised"
    /\ (Detecting /\ row_i >= 1) =>
          \A s \in DictKeys(column_mapping) :
              IF ~IsNumeric(RawCell(s, row_i))
              THEN ~In(s, triggered)
              ELSE In(s, triggered) <=> s \in Satisfied(row_i)

\* a classified row with a text cell under a baselined signal and another
\* signal of the row triggered
MissingCellSkippedWitness ==
    /\ Detecting /\ row_i >= 1
    /\ \E s, t \in DictKeys(column_mapping) :
          /\ RawCell(s, row_i) = Text
          /\ DictHas(baselines, s)
          /\ In(t, triggered)

\* C5: once the baseline loop is over, a signal has a baseline if and only
\* if it is mapped and its column has a numeric value; a mapped signal
\* without one is in no triggered list and raises nothing.
BaselineIffNumeric ==
    /\ pc # "raised"
    /\ Detecting =>
          /\ DictKeys(baselines) = {s \in DictKeys(column_mapping) : HasNumeric(s)}
          /\ DictKeys(volatility) = DictKeys(baselines)
          /\ \A s \in DictKeys(column_mapping) : ~HasNumeric(s) => ~In(s, triggered)

\* a classified row of a table with a mapped column of text and missing
\* cells only, and another signal triggered
BaselineIffNumericWitness ==
    /\ Detecting /\ row_i >= 1
    /\ \E s, t \in DictKeys(column_mapping) :
          /\ ~HasNumeric(s)
          /\ \E i \in 1..Len(contents.rows) : RawCell(s, i) = Text
          /\ In(t, triggered)

\* C6: the reported total row count is the number of rows of the uploaded
\* table.
TotalRowsExact ==
    pc = "done" => summary.total_rows = Len(contents.rows)

\* a finished run over rows with a missing cell and fewer events than rows
TotalRowsExactWitness ==
    /\ pc = "done"
    /\ Len(deviation_rows) = 1
    /\ Len(deviation_rows) < Len(contents.rows)
    /\ \E i \in 1..Len(contents.rows) :
          \E j \in 1..Len(contents.columns) : contents.rows[i][j] = NaN

\* C7: the summary counters are functions of the event list: the number of
\* events, the largest severity (0 for no event) and the number of events
\* of severity at least 2.
SummaryDerived ==
    pc = "done" =>
        /\ summary.deviation_count = Len(deviation_rows)
        /\ IF deviation_rows = <<>>
           THEN summary.max_severity = 0
           ELSE /\ \E e \in 1..Len(deviation_rows) :
                      deviation_rows[e].severity = summary.max_severity
                /\ \A e \in 1..Len(deviation_rows) :
                      deviation_rows[e].severity <= summary.max_severity
        /\ summary.multi_signal =
              Cardinality({e \in 1..Len(deviation_rows) :
                              deviation_rows[e].severity >= 2})

\* a finished run whose first event has severity 2 and whose last has 1
SummaryDerivedWitness ==
    /\ pc = "done"
    /\ Len(deviation_rows) >= 2
    /\ deviation_rows[1].severity = 2
    /\ deviation_rows[Len(deviation_rows)].severity = 1

\* C8: the events are in row order: their row indices are strictly
\* increasing 0-based positions of the table, none outside
\* 0..(row count - 1).
EventsInRowOrder ==
    /\ \A e \in 1..Len(deviation_rows) :
          deviation_rows[e].row \in 0..(Len(contents.rows) - 1)
    /\ \A e, f \in 1..Len(deviation_rows) :
          e < f => deviation_rows[e].row < deviation_rows[f].row

TriggeredInCanonicalOrder ==
    /\ \A a, b \in 1..Len(triggered) :
          a < b => Pos(triggered[a]) < Pos(triggered[b])
    /\ (triggered # <<>>) =>
          /\ deviation_rows # <<>>
          /\ deviation_rows[Len(deviation_rows)].signals = join(triggered)
    /\ \A e \in 1..Len(deviation_rows) :
          /\ 1 <= deviation_rows[e].severity
          /\ deviation_rows[e].severity <= Len(baselines)
    /\ Len(baselines) <= 4

\* the headers come in the reverse order and all four signals triggered
TriggeredInCanonicalOrderWitness ==
    /\ contents.columns = <<H_DBP, H_sys, H_SpO2, H_hr>>
    /\ triggered = SignalOrder
    /\ deviation_rows[Len(deviation_rows)].signals =
          "heart_rate, spo2, systolic_bp, diastolic_bp"
    /\ deviation_rows[Len(deviation_rows)].severity = 4

====
